---------------------------- MODULE Spec2Model ----------------------------
(***************************************************************************)
(* Health-plan selection: generate_preference_scores.py writes the         *)
(* preference table, total_cost.py reads it with the employee table,       *)
(* builds the mixed-integer program, solves it and prints the assignment.  *)
(*                                                                         *)
(* Numbers.  Premiums are non-negative integers.  Contribution factors     *)
(* are kept in tenths (1 .. 10 stands for 0.1 .. 1.0).  Every other real   *)
(* (a preference score, a z value, the objective) is an exact fraction     *)
(* [n |-> numerator, d |-> denominator] with d > 0.                        *)
(***************************************************************************)
EXTENDS Integers, Sequences, FiniteSets, TLC

VARIABLES employees_df, prefs_df, employee_data, pc, solver_called, status,
          sol, contrib_output, rows, selected, total_cost

vars == <<employees_df, prefs_df, employee_data, pc, solver_called, status,
          sol, contrib_output, rows, selected, total_cost>>

(***************************************************************************)
(* Bounds of the explored inputs.                                          *)
(***************************************************************************)
MaxEmp == 2
NumPlans == 3
LowPremium == 1
HighPremium == 30
CapEmp == 6
ScorerPlans == 3
ScorerTiers == 2

(***************************************************************************)
(* Exact fractions.                                                        *)
(***************************************************************************)
RECURSIVE Gcd(_, _)
Gcd(a, b) ==
    IF b = 0 THEN a ELSE Gcd(b, a % b)

Abs(a) ==
    IF a < 0 THEN -a ELSE a

Frac(n, d) ==
    LET g == Gcd(Abs(n), d)
    IN  [n |-> n \div g, d |-> d \div g]

FAdd(a, b) ==
    Frac(a.n * b.d + b.n * a.d, a.d * b.d)

FSub(a, b) ==
    Frac(a.n * b.d - b.n * a.d, a.d * b.d)

FMul(a, b) ==
    Frac(a.n * b.n, a.d * b.d)

FLeq(a, b) ==
    a.n * b.d <= b.n * a.d

FLess(a, b) ==
    a.n * b.d < b.n * a.d

Zero == Frac(0, 1)

One == Frac(1, 1)

Range(s) ==
    {s[k] : k \in DOMAIN s}

(***************************************************************************)
(* The tables' columns and the values a cell can hold.                     *)
(***************************************************************************)
plan_columns ==
    <<"plan_level_id1", "plan_level_id2", "plan_level_id3",
      "plan_level_id4", "plan_level_id5", "hsa_eligible_plan">>

plan_types ==
    plan_columns \o <<"reco_plan1", "reco_plan3", "reco_plan4">>

coverage_types ==
    <<"Employee Only", "Employee + Spouse", "Employee + Family">>

\* An empty cell of a plan column (pd.isna) and of a premium column.
NaN == "nan"

NaNPremium == -1

PlanIds ==
    <<"P1", "P2", "P3", "P4", "P5", "P6", "P7", "P8", "P9">>

\* One row of employees.csv: the plan cells, the premium cells.
Row(name, composition, plan, premium) ==
    [name |-> name, composition |-> composition,
     plan |-> [c \in Range(plan_types) |-> IF c \in DOMAIN plan THEN plan[c] ELSE NaN],
     premium |-> [c \in Range(plan_columns) |->
                     IF c \in DOMAIN premium THEN premium[c] ELSE NaNPremium]]

(***************************************************************************)
(* generate_preference_scores.py                                           *)
(***************************************************************************)
\* A recommendation slot given the weight of another one.
TagWeightSameReco(plan_type) ==
    IF plan_type = "hsa_eligible_plan" THEN 10
    ELSE IF plan_type = "reco_plan1" THEN 8
    ELSE IF plan_type = "reco_plan4" THEN 8
    ELSE IF plan_type = "reco_plan3" THEN 6
    ELSE 5

TagWeight(plan_type) ==
    IF plan_type = "hsa_eligible_plan" THEN 10
    ELSE IF plan_type = "reco_plan1" THEN 8
    ELSE IF plan_type = "reco_plan4" THEN 7
    ELSE IF plan_type = "reco_plan3" THEN 6
    ELSE 5

\* The loop over plan_types: emp_scores after the columns k .. 9.
RECURSIVE Accumulate(_, _, _)
Accumulate(row, k, emp_scores) ==
    IF k > Len(plan_types) THEN emp_scores
    ELSE LET plan_type == plan_types[k]
             plan_name == row.plan[plan_type]
             seen == IF plan_name \in DOMAIN emp_scores
                     THEN emp_scores
                     ELSE (plan_name :> 0) @@ emp_scores
         IN  IF plan_name # NaN
             THEN Accumulate(row, k + 1,
                             [seen EXCEPT ![plan_name] = @ + TagWeight(plan_type)])
             ELSE Accumulate(row, k + 1, emp_scores)

EmpScores(row) ==
    Accumulate(row, 1, <<>>)

MinOf(S) ==
    CHOOSE m \in S : \A v \in S : m <= v

MaxOf(S) ==
    CHOOSE m \in S : \A v \in S : m >= v

\* Scaling by the maximum alone instead of by the range.
NormalizeByMax(emp_scores) ==
    LET vals == {emp_scores[p] : p \in DOMAIN emp_scores}
        min_score == MinOf(vals)
        max_score == MaxOf(vals)
    IN  [p \in DOMAIN emp_scores |-> Frac(emp_scores[p] - min_score, max_score)]

\* Min-max normalisation of one employee's scores (emp_scores is not empty).
Normalize(emp_scores) ==
    LET vals == {emp_scores[p] : p \in DOMAIN emp_scores}
        min_score == MinOf(vals)
        max_score == MaxOf(vals)
    IN  IF max_score > min_score
        THEN [p \in DOMAIN emp_scores |->
                 Frac(emp_scores[p] - min_score, max_score - min_score)]
        ELSE [p \in DOMAIN emp_scores |-> One]

\* The rows the scorer appends for one employee (none when emp_scores is empty).
ScoreRows(row) ==
    LET emp_scores == EmpScores(row)
    IN  IF DOMAIN emp_scores = {} THEN {}
        ELSE LET normalized_scores == Normalize(emp_scores)
             IN  {[name |-> row.name, plan |-> p, score |-> normalized_scores[p]] :
                     p \in DOMAIN normalized_scores}

\* The whole script: preference_scores.csv.  Plan ids are strings, which
\* str() leaves as they are.  The table is kept as a set of rows: every
\* employee name is distinct, so the final sort decides nothing.
generate_preference_scores ==
    /\ pc = "loaded"
    /\ prefs_df' = UNION {ScoreRows(employees_df[i]) : i \in DOMAIN employees_df}
    /\ pc' = "scored"
    /\ UNCHANGED <<employees_df, employee_data, solver_called, status, sol,
                   contrib_output, rows, selected, total_cost>>

(***************************************************************************)
(* Inputs of the scorer runs: one employee, the first ScorerTiers tier     *)
(* columns, the HSA column and the three recommendation columns each empty *)
(* or one of ScorerPlans plans.                                            *)
(***************************************************************************)
ScorerColumns ==
    {plan_columns[k] : k \in 1 .. ScorerTiers}
        \cup {"hsa_eligible_plan", "reco_plan1", "reco_plan3", "reco_plan4"}

ScorerCells ==
    {NaN} \cup {PlanIds[k] : k \in 1 .. ScorerPlans}

NoSol == [x |-> <<>>, y |-> <<>>, contrib |-> <<>>, z |-> <<>>]

\* Nothing has run yet: only the employee table exists.
Fresh ==
    /\ prefs_df = {}
    /\ employee_data = <<>>
    /\ pc = "loaded"
    /\ solver_called = FALSE
    /\ status = 0
    /\ sol = NoSol
    /\ contrib_output = <<>>
    /\ rows = <<>>
    /\ selected = {}
    /\ total_cost = Zero

InitScorer ==
    /\ \E plan \in [ScorerColumns -> ScorerCells] :
          employees_df = <<Row(1, coverage_types[1], plan, <<>>)>>
    /\ Fresh

NextScorer ==
    generate_preference_scores

SpecScorer ==
    InitScorer /\ [][NextScorer]_vars

(***************************************************************************)
(* total_cost.py: loading the two tables.                                  *)
(***************************************************************************)
\* all_plans: every plan id of the six plan columns.  list(set(..)) fixes
\* an arbitrary order; the variables are indexed by plan id instead of by
\* position in that list.
all_plans(df) ==
    {df[i].plan[c] : i \in DOMAIN df, c \in Range(plan_columns)} \ {NaN}

hsa_plans(df) ==
    {df[i].plan["hsa_eligible_plan"] : i \in DOMAIN df} \ {NaN}

\* emp_plans after the columns k .. 6: a later column overwrites the premium.
RECURSIVE EmpPlans(_, _, _)
EmpPlans(row, k, emp_plans) ==
    IF k > Len(plan_columns) THEN emp_plans
    ELSE LET plan_id == row.plan[plan_columns[k]]
             premium == row.premium[plan_columns[k]]
         IN  IF plan_id = NaN THEN EmpPlans(row, k + 1, emp_plans)
             ELSE IF premium # NaNPremium
             THEN EmpPlans(row, k + 1,
                           (plan_id :> premium) @@ emp_plans)
             ELSE EmpPlans(row, k + 1, emp_plans)

\* emp_prefs: the scores of the preference rows with this employee's name.
EmpPrefs(row, prefs) ==
    LET pref_rows == {r \in prefs : r.name = row.name}
    IN  [p \in {r.plan : r \in pref_rows} |->
            (CHOOSE r \in pref_rows : r.plan = p).score]

EmployeeData(df, prefs) ==
    [i \in DOMAIN df |->
        [name |-> df[i].name,
         coverage |-> df[i].composition,
         plans |-> EmpPlans(df[i], 1, <<>>),
         prefs |-> EmpPrefs(df[i], prefs)]]

(***************************************************************************)
(* The problem.  A point is [x, y, contrib, z]: x[i][plan] and y[plan] in  *)
(* {0,1}, contrib[ct] in tenths, z[<<i, plan>>] in tenths of a currency    *)
(* unit for the offered pairs.                                             *)
(***************************************************************************)
\* Bounds of the contribution variables, in tenths.
lowBound == 1

upBound == 10

\* The values of a contribution variable that are explored: both bounds and
\* one interior value.
ContribGrid ==
    {lowBound, 5, upBound}

\* The values of z[i][j] that are explored: 0 and premium * c for each c.
ZGrid(premium) ==
    {0} \cup {premium * c : c \in ContribGrid}

RECURSIVE SumOver(_, _)
SumOver(f, D) ==
    IF D = {} THEN 0
    ELSE LET d == CHOOSE d \in D : TRUE
         IN  f[d] + SumOver(f, D \ {d})

RECURSIVE FSumOver(_, _)
FSumOver(f, D) ==
    IF D = {} THEN Zero
    ELSE LET d == CHOOSE d \in D : TRUE
         IN  FAdd(f[d], FSumOver(f, D \ {d}))

\* The set of functions f on DOMAIN vals with f[d] \in vals[d] for every d.
RECURSIVE FunProd(_)
FunProd(vals) ==
    IF DOMAIN vals = {} THEN {<<>>}
    ELSE LET d == CHOOSE d \in DOMAIN vals : TRUE
             rest == FunProd([e \in DOMAIN vals \ {d} |-> vals[e]])
         IN  {(d :> v) @@ f : v \in vals[d], f \in rest}

\* The (employee, plan) pairs that get a z variable: the offered plans.
OfferedPairs(ed) ==
    {pr \in (DOMAIN ed) \X UNION {DOMAIN ed[k].plans : k \in DOMAIN ed} :
        pr[2] \in DOMAIN ed[pr[1]].plans}

\* No constraint for the plans an employee is not offered.
NotOfferedFree(emp, plan, xij) ==
    TRUE

\* prob += x[i][j] == 0 for a plan the employee is not offered.
NotOffered(emp, plan, xij) ==
    plan \notin DOMAIN emp.plans => xij = 0

\* M = premium.
BigM(premium) ==
    premium

\* z <= premium * contrib
z_ub1(premium, c, xij, zij) ==
    zij <= premium * c

\* z <= M * x (z in tenths, hence the factor 10)
z_ub2(premium, c, xij, zij) ==
    zij <= 10 * BigM(premium) * xij

\* The lower bound without the (1 - x) factor.
z_lb_no_selector(premium, c, xij, zij) ==
    zij >= premium * c - 10 * BigM(premium)

\* z >= premium * contrib - M * (1 - x)
z_lb(premium, c, xij, zij) ==
    zij >= premium * c - 10 * BigM(premium) * (1 - xij)

\* z >= 0 (also the variable's lowBound)
z_pos(premium, c, xij, zij) ==
    zij >= 0

\* An employee may also hold no plan.
one_plan_at_most(xi) ==
    SumOver(xi, DOMAIN xi) <= 1

\* lpSum(x[i]) == 1
one_plan(xi) ==
    SumOver(xi, DOMAIN xi) = 1

\* x[i][j] <= y[j]
link(xij, yj) ==
    xij <= yj

\* The cap on the plans in use.
MaxPlans == 5

\* No cap at all.
max_plans_absent(y) ==
    TRUE

\* lpSum(y) <= 5
max_plans(y) ==
    SumOver(y, DOMAIN y) <= MaxPlans

\* hsa_plan_indices: the plans of the HSA column that are in all_plans.
hsa_plan_indices(df) ==
    hsa_plans(df) \cap all_plans(df)

\* Added only when the HSA column names a plan.
hsa_requirement(hsa, y) ==
    hsa # {} => SumOver(y, hsa) >= 1

\* The rows x[i] that meet the constraints on x[i] alone.
XRows(plans, emp) ==
    {xi \in [plans -> {0, 1}] :
        /\ \A plan \in plans : NotOffered(emp, plan, xi[plan])
        /\ one_plan(xi)}

XSet(plans, ed) ==
    FunProd([i \in DOMAIN ed |-> XRows(plans, ed[i])])

\* The vectors y that meet the constraints on y, given x.
YSet(plans, hsa, x) ==
    {y \in [plans -> {0, 1}] :
        /\ \A i \in DOMAIN x : \A plan \in plans : link(x[i][plan], y[plan])
        /\ max_plans(y)
        /\ hsa_requirement(hsa, y)}

CSet ==
    [Range(coverage_types) -> ContribGrid]

\* The values of z[i][j] that meet the four constraints on it, given x and contrib.
ZVals(premium, c, xij) ==
    {zij \in ZGrid(premium) :
        /\ z_ub1(premium, c, xij, zij)
        /\ z_ub2(premium, c, xij, zij)
        /\ z_lb(premium, c, xij, zij)
        /\ z_pos(premium, c, xij, zij)}

ZSet(ed, pairs, x, contrib) ==
    FunProd([pr \in pairs |->
                ZVals(ed[pr[1]].plans[pr[2]], contrib[ed[pr[1]].coverage], x[pr[1]][pr[2]])])

\* pref = emp['prefs'].get(plan, 0)
Pref(emp, plan) ==
    IF plan \in DOMAIN emp.prefs THEN emp.prefs[plan] ELSE Zero

norm_factor(ed) ==
    LET max_cost == SumOver([i \in DOMAIN ed |-> SumOver(ed[i].plans, DOMAIN ed[i].plans)],
                            DOMAIN ed)
        max_pref == FSumOver([i \in DOMAIN ed |-> FSumOver(ed[i].prefs, DOMAIN ed[i].prefs)],
                             DOMAIN ed)
    IN  IF max_cost # 0 /\ max_pref # Zero
        THEN IF FLess(Frac(max_cost, 1), max_pref) THEN max_pref ELSE Frac(max_cost, 1)
        ELSE One

alpha == Frac(1, 2)

beta == Frac(1, 2)

FDiv(a, b) ==
    IF b.n > 0 THEN Frac(a.n * b.d, a.d * b.n) ELSE Frac(-(a.n * b.d), a.d * (-b.n))

\* Maximising the cost term instead of minimising it.
ObjectiveCostNegated(ed, pairs, norm, x, z) ==
    LET cost == Frac(SumOver(z, pairs), 10)
        pref == FSumOver([pr \in pairs |->
                             FMul(Pref(ed[pr[1]], pr[2]), Frac(x[pr[1]][pr[2]], 1))], pairs)
    IN  FSub(FDiv(FMul(beta, pref), norm), FDiv(FMul(alpha, cost), norm))

\* alpha * lpSum(cost_terms) / norm_factor - beta * lpSum(pref_terms) / norm_factor,
\* with pairs = the offered pairs and norm = norm_factor.
Objective(ed, pairs, norm, x, z) ==
    LET cost == Frac(SumOver(z, pairs), 10)
        pref == FSumOver([pr \in pairs |->
                             FMul(Pref(ed[pr[1]], pr[2]), Frac(x[pr[1]][pr[2]], 1))], pairs)
    IN  FSub(FDiv(FMul(alpha, cost), norm), FDiv(FMul(beta, pref), norm))

\* The least of a non-empty set of fractions.
FMin(S) ==
    CHOOSE m \in S : \A v \in S : FLeq(m, v)

\* The points (x, contrib, z) that extend to a feasible point by some y,
\* each with its objective value.
FeasibleXCZ(df, ed) ==
    LET plans == all_plans(df)
        hsa == hsa_plan_indices(df)
        pairs == OfferedPairs(ed)
        norm == norm_factor(ed)
        xs == {x \in XSet(plans, ed) : YSet(plans, hsa, x) # {}}
    IN  UNION {{[x |-> x, contrib |-> c, z |-> z,
                 obj |-> Objective(ed, pairs, norm, x, z)] :
                   z \in ZSet(ed, pairs, x, c)} : x \in xs, c \in CSet}

\* The optimal points: y has coefficient 0 in the objective, so every y that
\* is feasible with an optimal (x, contrib, z) is optimal.
OptimalSolutions(df, ed) ==
    LET feasible == FeasibleXCZ(df, ed)
        plans == all_plans(df)
        hsa == hsa_plan_indices(df)
    IN  IF feasible = {} THEN {}
        ELSE LET least == FMin({t.obj : t \in feasible})
                 best == {t \in feasible : t.obj = least}
             IN  UNION {{[x |-> t.x, y |-> y, contrib |-> t.contrib, z |-> t.z] :
                            y \in YSet(plans, hsa, t.x)} : t \in best}

\* Values the variables hold when nothing was solved.
ZeroSol(df, ed) ==
    [x |-> [i \in DOMAIN ed |-> [plan \in all_plans(df) |-> 0]],
     y |-> [plan \in all_plans(df) |-> 0],
     contrib |-> [ct \in Range(coverage_types) |-> lowBound],
     z |-> [pr \in OfferedPairs(ed) |-> 0]]

(***************************************************************************)
(* The script, step by step.                                               *)
(***************************************************************************)
\* Lines 4-132: read the tables, build employee_data and the problem.
build_problem ==
    /\ pc = "scored"
    /\ employee_data' = EmployeeData(employees_df, prefs_df)
    /\ pc' = "built"
    /\ UNCHANGED <<employees_df, prefs_df, solver_called, status, sol,
                   contrib_output, rows, selected, total_cost>>

\* prob.solve(): status 1 (Optimal) with an optimal point, -1 (Infeasible)
\* when no point is feasible, or 0 / -2 / -3 when the solver stops without a
\* proven optimum, the variables then holding a point it had found or none.
solve ==
    /\ pc = "built"
    /\ solver_called' = TRUE
    /\ pc' = "solved"
    /\ \E optimal \in {OptimalSolutions(employees_df, employee_data)} :
       LET none == ZeroSol(employees_df, employee_data)
       IN  \/ /\ optimal # {}
              /\ status' = 1
              /\ sol' \in optimal
           \/ /\ optimal = {}
              /\ status' = -1
              /\ sol' = none
           \/ /\ status' = 0
              /\ sol' \in optimal \cup {none}
           \/ /\ status' \in {-2, -3}
              /\ sol' = none
    /\ UNCHANGED <<employees_df, prefs_df, employee_data, contrib_output,
                   rows, selected, total_cost>>

\* value(v) > 0.5 for a binary variable.
IsOn(v) ==
    2 * v > 1

\* The rows of one employee: a row per plan of S.  A plan without premium
\* (emp['plans'][plan] raises KeyError) is marked by NaNPremium.
RECURSIVE RowsOf(_, _, _)
RowsOf(emp, out, S) ==
    IF S = {} THEN <<>>
    ELSE LET plan == CHOOSE plan \in S : TRUE
         IN  <<[name |-> emp.name, plan |-> plan,
                premium |-> IF plan \in DOMAIN emp.plans
                            THEN emp.plans[plan] ELSE NaNPremium,
                contrib_percent |-> out[emp.coverage]]>>
                 \o RowsOf(emp, out, S \ {plan})

\* The assignment rows: for each employee in order, the plans with x > 0.5.
RECURSIVE AssignmentRows(_, _, _, _)
AssignmentRows(ed, s, out, i) ==
    IF i > Len(ed) THEN <<>>
    ELSE RowsOf(ed[i], out, {plan \in DOMAIN s.x[i] : IsOn(s.x[i][plan])})
             \o AssignmentRows(ed, s, out, i + 1)

\* The rows printed before the first KeyError, all of them when there is none.
Printed(all) ==
    LET bad == {k \in DOMAIN all : all[k].premium = NaNPremium}
    IN  IF bad = {} THEN all ELSE SubSeq(all, 1, MinOf(bad) - 1)

\* Reporting whatever the variables hold, whatever the status.
IsOptimalAnyStatus(st) ==
    TRUE

\* status == 1 (LpStatusOptimal)
IsOptimal(st) ==
    st = 1

\* Lines 138-172: the failure message, or the contribution percentages, the
\* assignment rows, the total cost and the selected plans.
report ==
    /\ pc = "solved"
    /\ IF ~IsOptimal(status)
       THEN /\ pc' = "failed"
            /\ UNCHANGED <<contrib_output, rows, selected, total_cost>>
       ELSE LET out == [ct \in Range(coverage_types) |-> 10 * sol.contrib[ct]]
                all == AssignmentRows(employee_data, sol, out, 1)
                printed == Printed(all)
                cost == FSumOver([k \in DOMAIN printed |->
                                     Frac(printed[k].premium * printed[k].contrib_percent,
                                          100)],
                                 DOMAIN printed)
            IN  /\ contrib_output' = out
                /\ rows' = printed
                /\ IF printed = all
                   THEN /\ pc' = "reported"
                        /\ total_cost' = cost
                        /\ selected' = {plan \in DOMAIN sol.y : IsOn(sol.y[plan])}
                   ELSE /\ pc' = "keyerror"
                        /\ UNCHANGED <<selected, total_cost>>
    /\ UNCHANGED <<employees_df, prefs_df, employee_data, solver_called, status, sol>>

Next ==
    \/ generate_preference_scores
    \/ build_problem
    \/ solve
    \/ report

(***************************************************************************)
(* Inputs of the full runs: up to MaxEmp employees, each with an optional  *)
(* tier plan in plan_level_id1 and an optional HSA plan, with or without a *)
(* premium; the coverage types are taken in turn.                          *)
(***************************************************************************)
HsaPlan == PlanIds[NumPlans]

TierCells ==
    {<<NaN, NaNPremium>>, <<PlanIds[1], 0>>}
        \cup {<<PlanIds[k], LowPremium>> : k \in 1 .. NumPlans - 1}

HsaCells ==
    {<<NaN, NaNPremium>>, <<HsaPlan, NaNPremium>>,
     <<HsaPlan, LowPremium>>, <<HsaPlan, HighPremium>>}

MainRow(i, t, h) ==
    Row(i, coverage_types[((i - 1) % 3) + 1],
        ("plan_level_id1" :> t[1]) @@ ("hsa_eligible_plan" :> h[1]),
        ("plan_level_id1" :> t[2]) @@ ("hsa_eligible_plan" :> h[2]))

Init ==
    /\ \E n \in 1 .. MaxEmp :
          \E t \in [1 .. n -> TierCells], h \in [1 .. n -> HsaCells] :
              employees_df = [i \in 1 .. n |-> MainRow(i, t[i], h[i])]
    /\ Fresh

Spec ==
    Init /\ [][Next]_vars

(***************************************************************************)
(* Inputs of the runs with more employees than the cap allows plans:       *)
(* employee i is offered its own plan i, cheap, and possibly plan 1, dear. *)
(***************************************************************************)
CapRow(i, shared) ==
    Row(i, coverage_types[1],
        ("plan_level_id1" :> PlanIds[i])
            @@ ("plan_level_id2" :> IF shared THEN PlanIds[1] ELSE NaN),
        ("plan_level_id1" :> LowPremium)
            @@ ("plan_level_id2" :> IF shared THEN HighPremium ELSE NaNPremium))

InitCap ==
    /\ \E shared \in [1 .. CapEmp -> BOOLEAN] :
          employees_df = [i \in 1 .. CapEmp |-> CapRow(i, shared[i])]
    /\ Fresh

SpecCap ==
    InitCap /\ [][Next]_vars

(***************************************************************************)
(* Properties of the scorer.                                               *)
(***************************************************************************)
\* The slot-tags (columns) under which a row offers plan p.
TagsOf(row, p) ==
    {c \in Range(plan_types) : row.plan[c] = p}

\* The kind of a slot-tag: the five default tier slots are one kind.
TagKind(c) ==
    IF c \in {plan_columns[k] : k \in 1 .. 5} THEN "tier" ELSE c

\* How many of the tags of p are of each kind.
KindCount(row, p) ==
    [kind \in {TagKind(c) : c \in Range(plan_types)} |->
        Cardinality({c \in TagsOf(row, p) : TagKind(c) = kind})]

RECURSIVE SumWeights(_)
SumWeights(tags) ==
    IF tags = {} THEN 0
    ELSE LET c == CHOOSE c \in tags : TRUE
         IN  TagWeight(c) + SumWeights(tags \ {c})

\* C6: for every employee with at least one offered plan, every normalized
\* score written by the scorer lies in [0,1], and every plan whose accumulated
\* weight is the employee's maximum is written with score exactly 1.0 (also
\* when all the accumulated weights are equal).
C6_ScoresInUnitInterval ==
    pc = "scored" =>
        \A i \in DOMAIN employees_df :
            LET emp_scores == EmpScores(employees_df[i])
                top == MaxOf({emp_scores[p] : p \in DOMAIN emp_scores})
            IN  \A p \in DOMAIN emp_scores :
                    \E r \in prefs_df :
                        /\ r.name = employees_df[i].name
                        /\ r.plan = p
                        /\ r.score.d > 0
                        /\ 0 <= r.score.n
                        /\ r.score.n <= r.score.d
                        /\ emp_scores[p] = top => r.score = One

\* Witness of C6: the scores written for an employee with three plans, the
\* best at 1.0, the worst at 0 and one strictly between them.
C6_Witness ==
    /\ pc = "scored"
    /\ \E r1, r2, r3 \in prefs_df :
          /\ r1.score = One
          /\ r2.score = Zero
          /\ FLess(Zero, r3.score)
          /\ FLess(r3.score, One)

\* C9 as stated: two distinct plans of one employee have equal accumulated
\* weight only when they were offered under the same combination of tags.
C9_TiesOnlySameTags ==
    pc = "scored" =>
        \A i \in DOMAIN employees_df :
            LET row == employees_df[i]
                emp_scores == EmpScores(row)
            IN  \A p, q \in DOMAIN emp_scores :
                    emp_scores[p] = emp_scores[q] =>
                        KindCount(row, p) = KindCount(row, q)

\* C9 amended: the base weights are strictly ordered (HSA-eligible, then the
\* recommendations, then the tier slots), a plan's accumulated weight is the
\* sum of the weights of its tags, and two plans each offered under a single
\* tag have equal accumulated weight only when their tags are of one kind.
C9_SingleTagTiesSameKind ==
    /\ TagWeight("hsa_eligible_plan") > TagWeight("reco_plan1")
    /\ TagWeight("reco_plan1") > TagWeight("reco_plan4")
    /\ TagWeight("reco_plan4") > TagWeight("reco_plan3")
    /\ \A k \in 1 .. 5 : TagWeight("reco_plan3") > TagWeight(plan_columns[k])
    /\ pc = "scored" =>
        \A i \in DOMAIN employees_df :
            LET row == employees_df[i]
                emp_scores == EmpScores(row)
            IN  /\ \A p \in DOMAIN emp_scores :
                       emp_scores[p] = SumWeights(TagsOf(row, p))
                /\ \A p, q \in DOMAIN emp_scores :
                       /\ Cardinality(TagsOf(row, p)) = 1
                       /\ Cardinality(TagsOf(row, q)) = 1
                       /\ emp_scores[p] = emp_scores[q]
                       => KindCount(row, p) = KindCount(row, q)

\* Witness of C9: two plans in two different tier slots tie, a third plan in
\* two slots carries the sum of both weights.
C9_Witness ==
    /\ pc = "scored"
    /\ LET row == employees_df[1]
           emp_scores == EmpScores(row)
       IN  \E p, q, r \in DOMAIN emp_scores :
              /\ p # q
              /\ TagsOf(row, p) = {"plan_level_id1"}
              /\ TagsOf(row, q) = {"plan_level_id2"}
              /\ emp_scores[p] = emp_scores[q]
              /\ TagsOf(row, r) = {"hsa_eligible_plan", "reco_plan1"}
              /\ emp_scores[r] = 18

(***************************************************************************)
(* Properties of the solved and reported assignment.                       *)
(***************************************************************************)
\* The plans an employee is offered: those with a premium.
Offered(i) ==
    DOMAIN employee_data[i].plans

\* The plans x assigns to employee i.
Assigned(x, i) ==
    {plan \in DOMAIN x[i] : IsOn(x[i][plan])}

RowPlans ==
    {rows[k].plan : k \in DOMAIN rows}

\* C1: after an Optimal solve, every employee has exactly one plan with
\* x[i][j] > 0.5, that plan is one the employee has a premium for, and the
\* report holds exactly one row for the employee, with that plan.
C1_OnePlanFromOwnOffers ==
    /\ pc = "solved" /\ status = 1 =>
          \A i \in DOMAIN employee_data :
              /\ Cardinality(Assigned(sol.x, i)) = 1
              /\ Assigned(sol.x, i) \subseteq Offered(i)
    /\ pc \in {"reported", "keyerror"} =>
          /\ pc = "reported"
          /\ \A i \in DOMAIN employee_data :
                /\ Cardinality({k \in DOMAIN rows :
                                   rows[k].name = employee_data[i].name}) = 1
                /\ \A k \in DOMAIN rows :
                       rows[k].name = employee_data[i].name
                           => rows[k].plan \in Offered(i)

\* Witness of C1: a report for two employees, the first with two offered
\* plans and a third plan of the population that it is not offered.
C1_Witness ==
    /\ pc = "reported"
    /\ Len(employee_data) = 2
    /\ Cardinality(Offered(1)) = 2
    /\ all_plans(employees_df) \ Offered(1) # {}
    /\ Len(rows) = 2

\* C2: after an Optimal solve, the rows of the report name at most 5
\* distinct plans, whatever the number of employees and of offered plans.
C2_AtMostMaxPlans ==
    /\ pc = "solved" /\ status = 1 =>
          Cardinality(UNION {Assigned(sol.x, i) : i \in DOMAIN employee_data}) <= 5
    /\ pc = "reported" => Cardinality(RowPlans) <= 5

\* Witness of C2: more than 5 employees whose offers span more than 5 plans,
\* reported with exactly 5 distinct plans.
C2_Witness ==
    /\ pc = "reported"
    /\ Len(rows) > 5
    /\ Cardinality(all_plans(employees_df)) > 5
    /\ Cardinality(RowPlans) = 5

\* C3: when the HSA requirement is active and the solve is Optimal, some
\* row of the report assigns an HSA-eligible plan.
C3_HsaPlanAssigned ==
    pc = "reported" /\ hsa_plan_indices(employees_df) # {} =>
        RowPlans \cap hsa_plans(employees_df) # {}

\* C4: contribution factors, rows, a total cost and selected plans are
\* produced only when the status is Optimal (1); with any other status the
\* run ends in the failure message and nothing of the report is produced.
C4_ReportOnlyWhenOptimal ==
    /\ pc \in {"failed", "reported", "keyerror"} /\ status # 1 =>
          /\ pc = "failed"
          /\ rows = <<>>
          /\ contrib_output = <<>>
          /\ selected = {}
          /\ total_cost = Zero
    /\ rows # <<>> \/ contrib_output # <<>> \/ selected # {} => status = 1
    /\ pc = "failed" => status # 1

\* Witness of C4: the failure message after the solver stopped (status 0)
\* with the variables holding an assignment.
C4_Witness ==
    /\ pc = "failed"
    /\ status = 0
    /\ \E i \in DOMAIN employee_data : Assigned(sol.x, i) # {}

SomeEmployeeWithoutOffers ==
    \E i \in DOMAIN employee_data : Offered(i) = {}

C7_BigMExact ==
    /\ \A pr \in OfferedPairs(employee_data) :
          LET premium == employee_data[pr[1]].plans[pr[2]]
          IN  /\ BigM(premium) = premium
              /\ \A c \in ContribGrid :
                    /\ \A zij \in ZVals(premium, c, 1) : zij = premium * c
                    /\ \A zij \in ZVals(premium, c, 0) : zij = 0
    /\ pc = "solved" /\ status \in {0, 1} /\ sol.x # <<>> =>
          \A pr \in OfferedPairs(employee_data) :
              LET emp == employee_data[pr[1]]
              IN  sol.z[pr] = emp.plans[pr[2]] * sol.contrib[emp.coverage]
                                 * sol.x[pr[1]][pr[2]]

\* Witness of C7: a returned point with a selected pair of positive premium,
\* z = premium * contrib > 0, and an unselected pair of positive premium, z = 0.
C7_Witness ==
    /\ pc = "solved"
    /\ status = 1
    /\ \E p1, p2 \in OfferedPairs(employee_data) :
          /\ sol.x[p1[1]][p1[2]] = 1
          /\ sol.z[p1] > 0
          /\ sol.x[p2[1]][p2[2]] = 0
          /\ employee_data[p2[1]].plans[p2[2]] > 0
          /\ sol.z[p2] = 0
    /\ \E pr \in OfferedPairs(employee_data) : \E c \in ContribGrid :
          c > lowBound /\ ZVals(employee_data[pr[1]].plans[pr[2]], c, 1) # {}

\* C8: in every Optimal solution y[j] = 1 exactly when some employee is
\* assigned plan j, so the selected plans of the report are the plans of
\* its rows.
C8_InUseIffAssigned ==
    /\ pc = "solved" /\ status = 1 =>
          \A plan \in DOMAIN sol.y :
              IsOn(sol.y[plan]) <=>
                  \E i \in DOMAIN employee_data : plan \in Assigned(sol.x, i)
    /\ pc = "reported" => selected = RowPlans

\* The objective of an assignment once every contribution factor is 0.1:
\* the sum over the employees of alpha * 0.1 * premium - beta * preference.
ReducedObjective(ed, x) ==
    FSumOver([pr \in OfferedPairs(ed) |->
                 FMul(Frac(x[pr[1]][pr[2]], 1),
                      FSub(FMul(alpha, Frac(lowBound * ed[pr[1]].plans[pr[2]], 10)),
                           FMul(beta, Pref(ed[pr[1]], pr[2]))))],
             OfferedPairs(ed))

\* C10: in every Optimal solution the contribution factor of each coverage
\* type with an employee assigned a plan of premium > 0 is the lower bound
\* 0.1, and the assignment minimises the sum of
\* alpha * 0.1 * premium - beta * preference over the assignments that meet
\* the plan constraints.
C10_ContribAtLowerBound ==
    pc = "solved" /\ status = 1 =>
        /\ \A i \in DOMAIN employee_data :
              (\E plan \in Assigned(sol.x, i) : employee_data[i].plans[plan] > 0)
                  => sol.contrib[employee_data[i].coverage] = lowBound
        /\ LET plans == all_plans(employees_df)
               hsa == hsa_plan_indices(employees_df)
               mine == ReducedObjective(employee_data, sol.x)
           IN  \A x \in XSet(plans, employee_data) :
                   YSet(plans, hsa, x) # {}
                       => FLeq(mine, ReducedObjective(employee_data, x))

\* Witness of C10: an Optimal solution in which an employee holds a plan of
\* positive premium although it prefers another offered plan, and another
\* coverage type, with no premium to pay, keeps a factor above 0.1.
C10_Witness ==
    /\ pc = "solved"
    /\ status = 1
    /\ \E i \in DOMAIN employee_data : \E plan \in Assigned(sol.x, i) :
          /\ employee_data[i].plans[plan] > 0
          /\ sol.contrib[employee_data[i].coverage] = lowBound
          /\ \E other \in Offered(i) :
                FLess(Pref(employee_data[i], plan), Pref(employee_data[i], other))
    /\ \E ct \in Range(coverage_types) : sol.contrib[ct] > lowBound

=============================================================================
